---------------------------- MODULE Spec2Model ----------------------------
(***************************************************************************)
(* Model of the GameEngine of src/LLm/main.py: the rule catalog, the game  *)
(* state, the validator (enforce_state_change), the applicator             *)
(* (apply_state_change), the end-condition evaluator, save/load and the    *)
(* game loop.  The applicator is modelled one atom per step, so that the   *)
(* intermediate states of a batch are states of the model.                 *)
(***************************************************************************)
EXTENDS Integers, Sequences, FiniteSets, TLC

VARIABLES
    rules,       \* self.rules, the rule catalog loaded by __init__
    state,       \* self.state: location, inventory, hp, flags, turns
    shared,      \* TRUE while state's inventory and flags are the very objects of rules.START
    history,     \* self.history
    transcript,  \* self.transcript
    file,        \* save.json on disk
    pc,          \* position of game_loop
    user_input,  \* game_loop local: the command of the turn in progress
    response,    \* game_loop local: what call_llm returned last
    legal,       \* game_loop local legal_changes
    idx,         \* position of apply_state_change's for loop in legal
    turnFlags,   \* history variable: state.flags when the turn's batch was validated
    turnHp,      \* history variable: state.hp when the turn's batch was validated
    hpZeroed,    \* history variable: hp has been 0 and no set_flag cleared hp_zero since
    saved,       \* history variable: self.state and self.history at the last save_game
    end_state    \* game_loop local: last result of check_end_conditions

vars == <<rules, state, shared, history, transcript, file, pc, user_input,
          response, legal, idx, turnFlags, turnHp, hpZeroed, saved, end_state>>

-----------------------------------------------------------------------------
(* Bounds of the model *)

\* longest batch of atoms the oracle proposes in one reply
MaxBatch == 2

\* the oracle proposes no batch that could raise hp above this value
HpCap == 5

\* completed turns of one session (the transcript is never truncated)
MaxSessionTurns == 2

-----------------------------------------------------------------------------
(* The rule catalog (rules.json) *)

INVENTORY_LIMIT == 2

MAX_TURNS == 2

StartHp == 3

NoFlags == [f \in {} |-> TRUE]

LOCKS == [l \in {"vault"} |-> "has_key"]

END_CONDITIONS ==
    [MAX_TURNS |-> MAX_TURNS,
     LOSE_ANY_FLAGS |-> <<"hp_zero">>,
     WIN_ALL_FLAGS |-> <<"won">>]

\* the command patterns of the catalog
COMMANDS == <<"look", "go <d>", "Take <i>">>

START(inv) == [location |-> "cell", inventory |-> inv, hp |-> StartHp, flags |-> NoFlags]

RulesFile(inv) ==
    [START |-> START(inv),
     INVENTORY_LIMIT |-> INVENTORY_LIMIT,
     LOCKS |-> LOCKS,
     END_CONDITIONS |-> END_CONDITIONS,
     COMMANDS |-> COMMANDS]

\* a catalog with a turn limit above the 10 records that save_game keeps
LONG_MAX_TURNS == 13

RulesLong == [RulesFile(<<>>) EXCEPT !.END_CONDITIONS.MAX_TURNS = LONG_MAX_TURNS]

-----------------------------------------------------------------------------
(* Helpers for Python dicts and lists *)

\* d.get(k, False)
Get(d, k) == IF k \in DOMAIN d THEN d[k] ELSE FALSE

\* d[k] = v
SetKey(d, k, v) == [x \in (DOMAIN d) \cup {k} |-> IF x = k THEN v ELSE d[x]]

\* item in lst
In(lst, item) == \E i \in 1..Len(lst) : lst[i] = item

\* lst.remove(item): removes the first occurrence
RemoveFirst(lst, item) ==
    LET i == CHOOSE k \in 1..Len(lst) : lst[k] = item /\ \A j \in 1..(k-1) : lst[j] # item
    IN  SubSeq(lst, 1, i-1) \o SubSeq(lst, i+1, Len(lst))

\* lst[-n:]
LastN(lst, n) == IF Len(lst) <= n THEN lst ELSE SubSeq(lst, Len(lst) - n + 1, Len(lst))

NoDup(lst) == \A i, j \in 1..Len(lst) : lst[i] = lst[j] => i = j

-----------------------------------------------------------------------------
(* Strings: the characters of the texts the player types and of the patterns *)

Chars(text) ==
    CASE text = "look" -> <<"l", "o", "o", "k">>
      [] text = "LOOK" -> <<"L", "O", "O", "K">>
      [] text = "looking" -> <<"l", "o", "o", "k", "i", "n", "g">>
      [] text = "loo" -> <<"l", "o", "o">>
      [] text = "go n" -> <<"g", "o", " ", "n">>
      [] text = "gone" -> <<"g", "o", "n", "e">>
      [] text = "take x" -> <<"t", "a", "k", "e", " ", "x">>
      [] text = "fly" -> <<"f", "l", "y">>
      [] text = "go <d>" -> <<"g", "o", " ", "<", "d", ">">>
      [] text = "Take <i>" -> <<"T", "a", "k", "e", " ", "<", "i", ">">>
      [] text = "help" -> <<"h", "e", "l", "p">>
      [] text = "inventory" -> <<"i", "n", "v", "e", "n", "t", "o", "r", "y">>
      [] text = "save" -> <<"s", "a", "v", "e">>
      [] text = "load" -> <<"l", "o", "a", "d">>
      [] text = "quit" -> <<"q", "u", "i", "t">>

\* the lower case letter of the upper case letters in use
LowerOf == [c \in {"L", "O", "K", "T"} |->
              CASE c = "L" -> "l" [] c = "O" -> "o" [] c = "K" -> "k" [] c = "T" -> "t"]

\* str.lower()
Lower(s) == [i \in 1..Len(s) |-> IF s[i] \in DOMAIN LowerOf THEN LowerOf[s[i]] ELSE s[i]]

\* str.strip()
RECURSIVE Strip(_)
Strip(s) ==
    IF s = <<>> THEN s
    ELSE IF Head(s) = " " THEN Strip(Tail(s))
    ELSE IF s[Len(s)] = " " THEN Strip(SubSeq(s, 1, Len(s) - 1))
    ELSE s

\* the characters of s before its first blank
RECURSIVE UpToBlank(_)
UpToBlank(s) ==
    IF s = <<>> \/ Head(s) = " " THEN <<>> ELSE <<Head(s)>> \o UpToBlank(Tail(s))

\* str.split()[0]
FirstToken(s) == UpToBlank(Strip(s))

\* str.startswith(prefix)
StartsWith(s, prefix) == Len(prefix) <= Len(s) /\ SubSeq(s, 1, Len(prefix)) = prefix

-----------------------------------------------------------------------------
(* The pure functions of the engine *)

\* is_valid_command
is_valid_command(text, rl) ==
    LET cmd == Strip(Lower(Chars(text)))
    IN  IF cmd \in {Chars("help"), Chars("inventory"), Chars("save"), Chars("load"), Chars("quit")}
        THEN TRUE
        ELSE \E i \in 1..Len(rl.COMMANDS) :
                 StartsWith(cmd, FirstToken(Chars(rl.COMMANDS[i])))

\* an evaluator that looks at the win flags before the turn limit
CheckEndWinFirst(st, rl) ==
    LET end == rl.END_CONDITIONS
        max_turns == IF "MAX_TURNS" \in DOMAIN end THEN end.MAX_TURNS ELSE 999
        lose_flags == IF "LOSE_ANY_FLAGS" \in DOMAIN end THEN end.LOSE_ANY_FLAGS ELSE <<>>
        win_flags == IF "WIN_ALL_FLAGS" \in DOMAIN end THEN end.WIN_ALL_FLAGS ELSE <<>>
    IN  IF Len(win_flags) > 0 /\ \A i \in 1..Len(win_flags) : Get(st.flags, win_flags[i])
        THEN "WIN"
        ELSE IF st.turns >= max_turns THEN "LOSE"
        ELSE IF \E i \in 1..Len(lose_flags) : Get(st.flags, lose_flags[i]) THEN "LOSE"
        ELSE "None"

\* an evaluator that looks at the win flags before the lose flags
CheckEndWinBeforeLose(st, rl) ==
    LET end == rl.END_CONDITIONS
        max_turns == IF "MAX_TURNS" \in DOMAIN end THEN end.MAX_TURNS ELSE 999
        lose_flags == IF "LOSE_ANY_FLAGS" \in DOMAIN end THEN end.LOSE_ANY_FLAGS ELSE <<>>
        win_flags == IF "WIN_ALL_FLAGS" \in DOMAIN end THEN end.WIN_ALL_FLAGS ELSE <<>>
    IN  IF st.turns >= max_turns THEN "LOSE"
        ELSE IF Len(win_flags) > 0 /\ \A i \in 1..Len(win_flags) : Get(st.flags, win_flags[i])
             THEN "WIN"
        ELSE IF \E i \in 1..Len(lose_flags) : Get(st.flags, lose_flags[i]) THEN "LOSE"
        ELSE "None"

\* an evaluator that lets the game go one turn past the limit
CheckEndOffByOne(st, rl) ==
    LET end == rl.END_CONDITIONS
        max_turns == IF "MAX_TURNS" \in DOMAIN end THEN end.MAX_TURNS ELSE 999
        lose_flags == IF "LOSE_ANY_FLAGS" \in DOMAIN end THEN end.LOSE_ANY_FLAGS ELSE <<>>
        win_flags == IF "WIN_ALL_FLAGS" \in DOMAIN end THEN end.WIN_ALL_FLAGS ELSE <<>>
    IN  IF st.turns > max_turns THEN "LOSE"
        ELSE IF \E i \in 1..Len(lose_flags) : Get(st.flags, lose_flags[i]) THEN "LOSE"
        ELSE IF Len(win_flags) > 0 /\ \A i \in 1..Len(win_flags) : Get(st.flags, win_flags[i])
             THEN "WIN"
        ELSE "None"

\* check_end_conditions: "WIN", "LOSE" or "None"
check_end_conditions(st, rl) ==
    LET end == rl.END_CONDITIONS
        max_turns == IF "MAX_TURNS" \in DOMAIN end THEN end.MAX_TURNS ELSE 999
        lose_flags == IF "LOSE_ANY_FLAGS" \in DOMAIN end THEN end.LOSE_ANY_FLAGS ELSE <<>>
        win_flags == IF "WIN_ALL_FLAGS" \in DOMAIN end THEN end.WIN_ALL_FLAGS ELSE <<>>
    IN  IF st.turns >= max_turns THEN "LOSE"
        ELSE IF \E i \in 1..Len(lose_flags) : Get(st.flags, lose_flags[i]) THEN "LOSE"
        ELSE IF Len(win_flags) > 0 /\ \A i \in 1..Len(win_flags) : Get(st.flags, win_flags[i])
             THEN "WIN"
        ELSE "None"

Max(a, b) == IF a >= b THEN a ELSE b

\* a test of one atom that never looks at the capacity of the inventory
IsLegalNoCapacity(st, rl, change) ==
    IF change.type = "add_item" THEN TRUE
    ELSE IF change.type = "remove_item" THEN TRUE
    ELSE IF change.type = "move_to"
    THEN LET locks == IF "LOCKS" \in DOMAIN rl THEN rl.LOCKS ELSE NoFlags
         IN  IF change.location \in DOMAIN locks
             THEN Get(st.flags, locks[change.location])
             ELSE TRUE
    ELSE IF change.type = "set_flag" THEN TRUE
    ELSE IF change.type = "hp_delta" THEN TRUE
    ELSE FALSE

\* the test enforce_state_change makes on one atom: TRUE when it is appended to legal_changes
IsLegal(st, rl, change) ==
    IF change.type = "add_item"
    THEN ~(Len(st.inventory) >= rl.INVENTORY_LIMIT)
    ELSE IF change.type = "remove_item" THEN TRUE
    ELSE IF change.type = "move_to"
    THEN LET locks == IF "LOCKS" \in DOMAIN rl THEN rl.LOCKS ELSE NoFlags
         IN  IF change.location \in DOMAIN locks
             THEN Get(st.flags, locks[change.location])
             ELSE TRUE
    ELSE IF change.type = "set_flag" THEN TRUE
    ELSE IF change.type = "hp_delta" THEN TRUE
    ELSE FALSE

\* an hp_delta without the floor at 0
HpAfterNoClamp(hp, delta) == hp + delta

\* an hp_delta that also caps hp at the START hp
HpAfterCapped(hp, delta) == IF Max(0, hp + delta) > StartHp THEN StartHp ELSE Max(0, hp + delta)

\* hp after one hp_delta atom
HpAfter(hp, delta) == Max(0, hp + delta)

\* an add_item that appends without looking for the item
AddItemAlways(inventory, item) == Append(inventory, item)

\* inventory after one add_item atom
AddItem(inventory, item) ==
    IF ~In(inventory, item) THEN Append(inventory, item) ELSE inventory

\* inventory after one remove_item atom
RemoveItem(inventory, item) ==
    IF In(inventory, item) THEN RemoveFirst(inventory, item) ELSE inventory

\* value of a set_flag atom: change.get("value", True)
ValueOf(change) == IF "value" \in DOMAIN change THEN change.value ELSE TRUE

\* an applicator that clamps hp but forgets the hp_zero flag
ApplyChangeNoHpZero(st, change) ==
    IF change.type = "add_item"
    THEN [st EXCEPT !.inventory = AddItem(@, change.item)]
    ELSE IF change.type = "remove_item"
    THEN [st EXCEPT !.inventory = RemoveItem(@, change.item)]
    ELSE IF change.type = "move_to"
    THEN [st EXCEPT !.location = change.location]
    ELSE IF change.type = "set_flag"
    THEN [st EXCEPT !.flags = SetKey(@, change.flag, ValueOf(change))]
    ELSE IF change.type = "hp_delta"
    THEN [st EXCEPT !.hp = HpAfter(st.hp, change.delta)]
    ELSE st

\* the body of apply_state_change's loop for one atom
ApplyChange(st, change) ==
    IF change.type = "add_item"
    THEN [st EXCEPT !.inventory = AddItem(@, change.item)]
    ELSE IF change.type = "remove_item"
    THEN [st EXCEPT !.inventory = RemoveItem(@, change.item)]
    ELSE IF change.type = "move_to"
    THEN [st EXCEPT !.location = change.location]
    ELSE IF change.type = "set_flag"
    THEN [st EXCEPT !.flags = SetKey(@, change.flag, ValueOf(change))]
    ELSE IF change.type = "hp_delta"
    THEN LET hp == HpAfter(st.hp, change.delta)
         IN  [st EXCEPT !.hp = hp,
                        !.flags = IF hp <= 0 THEN SetKey(@, "hp_zero", TRUE) ELSE @]
    ELSE st

\* a validator that applies each accepted atom before it examines the next
RECURSIVE EnforceIncremental(_, _, _)
EnforceIncremental(st, rl, state_change) ==
    IF state_change = <<>> THEN <<>>
    ELSE LET change == Head(state_change)
         IN  IF IsLegal(st, rl, change)
             THEN <<change>> \o EnforceIncremental(ApplyChange(st, change), rl, Tail(state_change))
             ELSE EnforceIncremental(st, rl, Tail(state_change))

\* a validator that stops at the first atom of unknown type
RECURSIVE EnforceStopAtUnknown(_, _, _)
EnforceStopAtUnknown(st, rl, state_change) ==
    IF state_change = <<>> THEN <<>>
    ELSE LET change == Head(state_change)
         IN  IF change.type \notin {"add_item", "remove_item", "move_to", "set_flag", "hp_delta"}
             THEN <<>>
             ELSE IF IsLegal(st, rl, change)
             THEN <<change>> \o EnforceStopAtUnknown(st, rl, Tail(state_change))
             ELSE EnforceStopAtUnknown(st, rl, Tail(state_change))

\* enforce_state_change: the legal atoms of the batch, in the batch's order
enforce_state_change(st, rl, state_change) ==
    LET Keep(change) == IsLegal(st, rl, change)
    IN  SelectSeq(state_change, Keep)

-----------------------------------------------------------------------------
(* The oracle: call_llm *)

\* Python's None
None == [py_none |-> TRUE]

\* all sequences over S of length at most n
RECURSIVE SeqsUpTo(_, _)
SeqsUpTo(S, n) ==
    IF n = 0 THEN {<<>>}
    ELSE LET shorter == SeqsUpTo(S, n - 1)
         IN  shorter \cup {Append(s, a) : s \in {t \in shorter : Len(t) = n - 1}, a \in S}

Batches(Atoms) == SeqsUpTo(Atoms, MaxBatch)

Narration == "You look around."

\* what can happen to the request of call_llm: no connection, a status other
\* than 200, any other exception (timeout, missing key), a body that is not
\* JSON, or a body that parses
Failures == {[kind |-> k] : k \in {"connection", "status", "exception", "not_json"}}

\* parsed replies: with both fields, without state_change, and {}
Replies(Atoms) ==
    {[kind |-> "json", reply |-> [narration |-> Narration, state_change |-> b]] : b \in Batches(Atoms)}
    \cup {[kind |-> "json", reply |-> [narration |-> Narration]],
          [kind |-> "json", reply |-> NoFlags]}

Outcomes(Atoms) == Failures \cup Replies(Atoms)

\* a call_llm that turns a body that is not JSON into a reply without atoms
CallLlmLenient(outcome) ==
    IF outcome.kind = "not_json" THEN [narration |-> "not json", state_change |-> <<>>]
    ELSE IF outcome.kind = "json" THEN outcome.reply
    ELSE None

\* call_llm: the parsed reply, or None on every failure
call_llm(outcome) ==
    IF outcome.kind = "connection" THEN None
    ELSE IF outcome.kind = "status" THEN None
    ELSE IF outcome.kind = "not_json" THEN None
    ELSE IF outcome.kind = "exception" THEN None
    ELSE outcome.reply

\* Python truth value of what call_llm returns: None and {} are false
Truthy(resp) == resp # None /\ DOMAIN resp # {}

\* response.get(key, default)
GetOr(d, k, default) == IF k \in DOMAIN d THEN d[k] ELSE default

\* sum of the positive deltas of a batch
RECURSIVE Gain(_)
Gain(batch) ==
    IF batch = <<>> THEN 0
    ELSE LET c == Head(batch)
         IN  (IF c.type = "hp_delta" /\ c.delta > 0 THEN c.delta ELSE 0) + Gain(Tail(batch))

\* turns one session may complete: the turn limit of the catalog, or more
\* when loads allow to replay
SessionTurns(rl) == Max(MaxSessionTurns, rl.END_CONDITIONS.MAX_TURNS)

-----------------------------------------------------------------------------
(* save.json: json.dump and json.load *)

\* a JSON object of booleans: its members, one pair per key
DumpFlags(flags) == {<<k, flags[k]>> : k \in DOMAIN flags}

LoadFlags(members) ==
    [k \in {m[1] : m \in members} |-> (CHOOSE m \in members : m[1] = k)[2]]

\* the "state" object: the values of its members, in the order of the keys
DumpState(st) == <<st.location, st.inventory, st.hp, DumpFlags(st.flags), st.turns>>

LoadState(obj) ==
    [location |-> obj[1], inventory |-> obj[2], hp |-> obj[3],
     flags |-> LoadFlags(obj[4]), turns |-> obj[5]]

\* one record of the "history" array
DumpRecord(rec) == <<rec.turn, rec.input, rec.narration, rec.state_change>>

LoadRecord(obj) ==
    [turn |-> obj[1], input |-> obj[2], narration |-> obj[3], state_change |-> obj[4]]

\* _save_json: the file's content for save_data (the timestamp is never read back)
JsonDump(save_data) ==
    [state |-> DumpState(save_data.state),
     history |-> [i \in 1..Len(save_data.history) |-> DumpRecord(save_data.history[i])]]

\* _load_json, with save_data.get("history", [])
JsonLoad(text) ==
    [state |-> LoadState(text.state),
     history |-> IF "history" \in DOMAIN text
                 THEN [i \in 1..Len(text.history) |-> LoadRecord(text.history[i])]
                 ELSE <<>>]

-----------------------------------------------------------------------------
(* Initial state: GameEngine.__init__, game_loop up to its while loop *)

InitWith(rl) ==
    /\ rules = rl
    /\ state = [location |-> rules.START.location,
                inventory |-> rules.START.inventory,
                hp |-> rules.START.hp,
                flags |-> rules.START.flags,
                turns |-> 0]
    /\ shared = TRUE
    /\ history = <<>>
    /\ transcript = <<>>
    /\ file = [exists |-> FALSE]
    /\ pc = "check"
    /\ user_input = ""
    /\ response = None
    /\ legal = <<>>
    /\ idx = 0
    /\ turnFlags = NoFlags
    /\ turnHp = rules.START.hp
    /\ hpZeroed = (rules.START.hp = 0)
    /\ saved = [state |-> state, history |-> history]
    /\ end_state = "None"

Init == InitWith(RulesFile(<<>>))

\* the same engine started with the catalog of a long game
InitLong == InitWith(RulesLong)

-----------------------------------------------------------------------------
(* game_loop *)

\* a loop top that evaluates the end conditions and never breaks
CheckEndNoBreak ==
    /\ pc = "check"
    /\ end_state' = check_end_conditions(state, rules)
    /\ pc' = "input"
    /\ UNCHANGED <<rules, state, shared, history, transcript, file, user_input,
                   response, legal, idx, turnFlags, turnHp, hpZeroed, saved>>

\* top of the while loop: check_end_conditions, break on WIN or LOSE
CheckEnd ==
    /\ pc = "check"
    /\ end_state' = check_end_conditions(state, rules)
    /\ pc' = IF end_state' \in {"WIN", "LOSE"} THEN "done" ELSE "input"
    /\ UNCHANGED <<rules, state, shared, history, transcript, file, user_input,
                   response, legal, idx, turnFlags, turnHp, hpZeroed, saved>>

\* EOF, KeyboardInterrupt or "quit": break
Quit ==
    /\ pc = "input"
    /\ pc' = "done"
    /\ UNCHANGED <<rules, state, shared, history, transcript, file, user_input,
                   response, legal, idx, turnFlags, turnHp, hpZeroed, saved, end_state>>

\* empty input, "help", "inventory", or a command is_valid_command rejects: continue
NoTurn ==
    /\ pc = "input"
    /\ \E kind \in {"", "help", "inventory", "xyzzy"} : pc' = "check"
    /\ UNCHANGED <<rules, state, shared, history, transcript, file, user_input,
                   response, legal, idx, turnFlags, turnHp, hpZeroed, saved, end_state>>

\* a save_game that cuts self.history itself down to the 10 records it writes
SaveTruncating ==
    /\ pc = "input"
    /\ file' = [exists |-> TRUE,
                text |-> JsonDump([state |-> state, history |-> LastN(history, 10)])]
    /\ history' = LastN(history, 10)
    /\ saved' = [state |-> state, history |-> history]
    /\ pc' = "check"
    /\ UNCHANGED <<rules, state, shared, transcript, user_input,
                   response, legal, idx, turnFlags, turnHp, hpZeroed, end_state>>

\* a save_game that writes the first 10 records, history[:10]
SaveOldest ==
    /\ pc = "input"
    /\ file' = [exists |-> TRUE,
                text |-> JsonDump([state |-> state,
                                   history |-> SubSeq(history, 1, IF Len(history) < 10
                                                                  THEN Len(history) ELSE 10)])]
    /\ saved' = [state |-> state, history |-> history]
    /\ pc' = "check"
    /\ UNCHANGED <<rules, state, shared, history, transcript, user_input,
                   response, legal, idx, turnFlags, turnHp, hpZeroed, end_state>>

\* "save": save_game
Save ==
    /\ pc = "input"
    /\ file' = [exists |-> TRUE,
                text |-> JsonDump([state |-> state, history |-> LastN(history, 10)])]
    /\ saved' = [state |-> state, history |-> history]
    /\ pc' = "check"
    /\ UNCHANGED <<rules, state, shared, history, transcript, user_input,
                   response, legal, idx, turnFlags, turnHp, hpZeroed, end_state>>

\* "load": load_game
Load ==
    /\ pc = "input"
    /\ IF file.exists
       THEN LET save_data == JsonLoad(file.text)
            IN  /\ state' = save_data.state
                /\ history' = save_data.history
                /\ shared' = FALSE
       ELSE UNCHANGED <<state, history, shared>>
    /\ pc' = "check"
    /\ UNCHANGED <<rules, transcript, file, user_input, response, legal, idx,
                   turnFlags, turnHp, hpZeroed, saved, end_state>>

\* a loop that counts the turn before the call and takes it back after the
\* call, also when the call failed
CommandRollback(cmd, outcome) ==
    /\ pc = "input"
    /\ response' = call_llm(outcome)
    /\ IF ~Truthy(response')
       THEN /\ pc' = "check"
            /\ state' = [state EXCEPT !.turns = @ - 1]
            /\ UNCHANGED <<user_input, legal, idx, turnFlags, turnHp>>
       ELSE LET state_change == GetOr(response', "state_change", <<>>)
            IN  /\ Len(transcript) < 4 * SessionTurns(rules)
                /\ state.hp + Gain(state_change) <= HpCap
                /\ user_input' = cmd
                /\ legal' = enforce_state_change(state, rules, state_change)
                /\ idx' = 1
                /\ turnFlags' = state.flags
                /\ turnHp' = state.hp
                /\ pc' = "apply"
                /\ UNCHANGED state
    /\ UNCHANGED <<rules, shared, history, transcript, file, hpZeroed, saved, end_state>>

\* a recognized command: call_llm, then continue when it failed, else
\* enforce_state_change on the proposed batch
Command(cmd, outcome) ==
    /\ pc = "input"
    /\ response' = call_llm(outcome)
    /\ IF ~Truthy(response')
       THEN /\ pc' = "check"
            /\ UNCHANGED <<user_input, legal, idx, turnFlags, turnHp>>
       ELSE LET state_change == GetOr(response', "state_change", <<>>)
            IN  /\ Len(transcript) < 4 * SessionTurns(rules)
                /\ state.hp + Gain(state_change) <= HpCap
                /\ user_input' = cmd
                /\ legal' = enforce_state_change(state, rules, state_change)
                /\ idx' = 1
                /\ turnFlags' = state.flags
                /\ turnHp' = state.hp
                /\ pc' = "apply"
    /\ UNCHANGED <<rules, state, shared, history, transcript, file, hpZeroed, saved, end_state>>

\* an applicator that walks the batch from its last atom to its first
ApplyStepBackwards ==
    /\ pc = "apply"
    /\ idx <= Len(legal)
    /\ LET change == legal[Len(legal) + 1 - idx]
           st == ApplyChange(state, change)
       IN  /\ state' = st
           /\ rules' = IF shared
                       THEN [rules EXCEPT !.START.inventory = st.inventory,
                                          !.START.flags = st.flags]
                       ELSE rules
           /\ hpZeroed' = IF change.type = "hp_delta" THEN (hpZeroed \/ st.hp = 0)
                          ELSE IF change.type = "set_flag" /\ change.flag = "hp_zero"
                                  /\ ValueOf(change) = FALSE
                          THEN FALSE
                          ELSE hpZeroed
    /\ idx' = idx + 1
    /\ UNCHANGED <<shared, history, transcript, file, pc, user_input, response,
                   legal, turnFlags, turnHp, saved, end_state>>

\* one iteration of apply_state_change's loop
ApplyStep ==
    /\ pc = "apply"
    /\ idx <= Len(legal)
    /\ LET change == legal[idx]
           st == ApplyChange(state, change)
       IN  /\ state' = st
           /\ rules' = IF shared
                       THEN [rules EXCEPT !.START.inventory = st.inventory,
                                          !.START.flags = st.flags]
                       ELSE rules
           /\ hpZeroed' = IF change.type = "hp_delta" THEN (hpZeroed \/ st.hp = 0)
                          ELSE IF change.type = "set_flag" /\ change.flag = "hp_zero"
                                  /\ ValueOf(change) = FALSE
                          THEN FALSE
                          ELSE hpZeroed
    /\ idx' = idx + 1
    /\ UNCHANGED <<shared, history, transcript, file, pc, user_input, response,
                   legal, turnFlags, turnHp, saved, end_state>>

\* a loop that writes the history record before it counts the turn
TurnEndStaleTurn ==
    /\ pc = "apply"
    /\ idx > Len(legal)
    /\ state' = [state EXCEPT !.turns = @ + 1]
    /\ history' = Append(history, [turn |-> state.turns, input |-> user_input,
                                   narration |-> GetOr(response, "narration", "..."),
                                   state_change |-> legal])
    /\ transcript' = transcript \o <<[turn |-> state'.turns], [player |-> user_input],
                                     [gm |-> GetOr(response, "narration", "...")],
                                     [state |-> legal]>>
    /\ pc' = "check"
    /\ UNCHANGED <<rules, shared, file, hpZeroed, saved, end_state, user_input, response,
                   legal, idx, turnFlags, turnHp>>

\* rest of the loop body: increment turns, record history and transcript
TurnEnd ==
    /\ pc = "apply"
    /\ idx > Len(legal)
    /\ state' = [state EXCEPT !.turns = @ + 1]
    /\ history' = Append(history, [turn |-> state'.turns, input |-> user_input,
                                   narration |-> GetOr(response, "narration", "..."),
                                   state_change |-> legal])
    /\ transcript' = transcript \o <<[turn |-> state'.turns], [player |-> user_input],
                                     [gm |-> GetOr(response, "narration", "...")],
                                     [state |-> legal]>>
    /\ pc' = "check"
    /\ UNCHANGED <<rules, shared, file, hpZeroed, saved, end_state, user_input, response,
                   legal, idx, turnFlags, turnHp>>

Turn(Atoms) == \E outcome \in Outcomes(Atoms) : Command("look", outcome)

\* the loop without a player who saves and loads
Play == CheckEnd \/ Quit \/ NoTurn \/ ApplyStep \/ TurnEnd

\* the loop with every special command
Control == Play \/ Save \/ Load

-----------------------------------------------------------------------------
(* Specifications: the same engine under oracles proposing different atoms *)

\* a flag, an item and an atom of unknown type; the player saves and loads
MixAtoms ==
    {[type |-> "set_flag", flag |-> "won"],
     [type |-> "add_item", item |-> "A"],
     [type |-> "teleport"]}

Next == Control \/ Turn(MixAtoms)

Spec == Init /\ [][Next]_vars

\* items only
ItemAtoms ==
    {[type |-> "add_item", item |-> "A"], [type |-> "add_item", item |-> "B"],
     [type |-> "add_item", item |-> "C"], [type |-> "remove_item", item |-> "A"]}

NextItems == Play \/ Turn(ItemAtoms)

SpecItems == Init /\ [][NextItems]_vars

\* hit points; the player saves and loads
HpAtoms == {[type |-> "hp_delta", delta |-> d] : d \in {-5, -1, 2}}

NextHp == Control \/ Turn(HpAtoms)

SpecHp == Init /\ [][NextHp]_vars

\* the hp_zero flag, set by the engine and by the oracle; the player saves and loads
ZeroAtoms ==
    {[type |-> "hp_delta", delta |-> -5]}
    \cup {[type |-> "set_flag", flag |-> "hp_zero", value |-> v] : v \in BOOLEAN}

NextZero == Control \/ Turn(ZeroAtoms)

SpecZero == Init /\ [][NextZero]_vars

\* locations and the flag of the lock
LockAtoms ==
    {[type |-> "move_to", location |-> l] : l \in {"hall", "vault"}}
    \cup {[type |-> "set_flag", flag |-> "has_key", value |-> v] : v \in BOOLEAN}

NextLock == Play \/ Turn(LockAtoms)

SpecLock == Init /\ [][NextLock]_vars

\* a long game in which every reply proposes the same move; the player
\* loads at any time and saves once the history holds 9 records or more, so
\* that saves are made below, at and above the 10 records save_game keeps
LongOutcomes ==
    Failures
    \cup {[kind |-> "json",
           reply |-> [narration |-> Narration,
                      state_change |-> <<[type |-> "move_to", location |-> "hall"]>>]]}

LateSave == Len(history) >= 9 /\ Save

NextLong == Play \/ LateSave \/ Load \/ \E outcome \in LongOutcomes : Command("look", outcome)

SpecLong == InitLong /\ [][NextLong]_vars

\* free text at the prompt: is_valid_command decides between a turn and
\* "Unknown command"
FreeTexts == {"look", "LOOK", "looking", "loo", "go n", "gone", "take x", "fly"}

\* a text is_valid_command rejects: continue
Rejected(text) ==
    /\ pc = "input"
    /\ ~is_valid_command(text, rules)
    /\ user_input' = text
    /\ pc' = "check"
    /\ UNCHANGED <<rules, state, shared, history, transcript, file, response,
                   legal, idx, turnFlags, turnHp, hpZeroed, saved, end_state>>

\* a text is_valid_command accepts: the turn is played
Accepted(text) ==
    /\ is_valid_command(text, rules)
    /\ \E outcome \in LongOutcomes : Command(text, outcome)

NextCmd ==
    \/ CheckEnd \/ Quit \/ ApplyStep \/ TurnEnd
    \/ \E text \in FreeTexts : Rejected(text) \/ Accepted(text)

SpecCmd == Init /\ [][NextCmd]_vars

\* catalogs that differ in WIN_ALL_FLAGS: one flag, empty, absent
EndCatalogs ==
    {RulesFile(<<>>),
     [RulesFile(<<>>) EXCEPT !.END_CONDITIONS.WIN_ALL_FLAGS = <<>>],
     [RulesFile(<<>>) EXCEPT !.END_CONDITIONS =
          [MAX_TURNS |-> MAX_TURNS, LOSE_ANY_FLAGS |-> <<"hp_zero">>]]}

InitEnd == \E rl \in EndCatalogs : InitWith(rl)

\* the win flag and the lose flag, set and cleared
EndAtoms ==
    {[type |-> "set_flag", flag |-> "won"],
     [type |-> "set_flag", flag |-> "hp_zero"],
     [type |-> "set_flag", flag |-> "won", value |-> FALSE]}

NextEnd == Play \/ Turn(EndAtoms)

SpecEnd == InitEnd /\ [][NextEnd]_vars

\* catalogs with every turn limit from 0 to MAX_TURNS
LiveCatalogs ==
    {[RulesFile(<<>>) EXCEPT !.END_CONDITIONS.MAX_TURNS = n] : n \in 0..MAX_TURNS}

InitLive == \E rl \in LiveCatalogs : InitWith(rl)

\* the outcomes game_loop takes for a response: call_llm returns an object
\* that is not empty ("if not response" sends None and {} to "Try again")
Successes(Atoms) == {outcome \in Replies(Atoms) : Truthy(call_llm(outcome))}

\* a session in which every input is a recognized command and every call of
\* the oracle succeeds
NextLive ==
    \/ CheckEnd \/ ApplyStep \/ TurnEnd
    \/ \E outcome \in Successes(MixAtoms) : Command("look", outcome)

\* the loop keeps running: the process takes its next step and the player
\* always has a next command
SpecLive == InitLive /\ [][NextLive]_vars /\ WF_vars(NextLive)

TypeOK ==
    /\ pc \in {"check", "input", "apply", "done"}
    /\ state.hp \in Int
    /\ state.turns \in Nat
    /\ end_state \in {"WIN", "LOSE", "None"}

-----------------------------------------------------------------------------
(* Step predicates used by the properties *)

\* the step applies the atom legal[idx]
Applying == pc = "apply" /\ idx <= Len(legal)

\* the step is a load_game that restores the save file
Restoring ==
    /\ pc = "input" /\ file.exists
    /\ state' = JsonLoad(file.text).state /\ history' = JsonLoad(file.text).history

\* the atom applied by the last ApplyStep
Applied == legal[idx - 1]

JustApplied == pc = "apply" /\ idx > 1

-----------------------------------------------------------------------------
(* Properties *)

\* C1: the inventory never holds more than INVENTORY_LIMIT items, at any
\* point of any sequence of turns, also inside a batch with several add_item
\* atoms.
InventoryWithinLimit == Len(state.inventory) <= rules.INVENTORY_LIMIT

\* C2: the rule catalog is never mutated after load: every field of rules,
\* the START snapshot's inventory and flags included, keeps the value it
\* had right after loading.
RulesNeverMutated == rules = RulesFile(<<>>)

\* C3: flags["hp_zero"] is true if and only if hp has been 0 at least once
\* and no set_flag atom has cleared hp_zero since.
HpZeroIffReachedZero == Get(state.flags, "hp_zero") <=> hpZeroed

\* C3 (amended): hp_zero is true right after every hp_delta atom that leaves
\* hp at 0, and its value changes only in a step that applies such an
\* hp_delta (to true), that applies a set_flag atom naming hp_zero (to the
\* atom's value), or that restores a save file.
HpZeroFlagSteps ==
    [][/\ (Applying /\ legal[idx].type = "hp_delta" /\ state'.hp = 0)
            => Get(state'.flags, "hp_zero")
       /\ (Get(state'.flags, "hp_zero") # Get(state.flags, "hp_zero"))
            => \/ /\ Applying /\ legal[idx].type = "hp_delta" /\ state'.hp = 0
                  /\ Get(state'.flags, "hp_zero")
               \/ /\ Applying /\ legal[idx].type = "set_flag" /\ legal[idx].flag = "hp_zero"
                  /\ Get(state'.flags, "hp_zero") = ValueOf(legal[idx])
               \/ Restoring]_vars

\* C3 witness: an hp_delta atom has just brought hp to 0 and hp_zero is set
HpZeroJustSet ==
    /\ JustApplied /\ Applied.type = "hp_delta"
    /\ state.hp = 0 /\ Get(state.flags, "hp_zero")

\* C4: a move_to atom to a location with a lock is never in the legal list
\* when the lock's flag was not true at the start of the turn, whatever
\* else the batch holds, and no step of the applicator moves the player to
\* a locked location in such a turn.
LockedMoveRejected ==
    /\ [](pc = "apply" =>
            \A i \in 1..Len(legal) :
                (legal[i].type = "move_to" /\ legal[i].location \in DOMAIN rules.LOCKS)
                    => Get(turnFlags, rules.LOCKS[legal[i].location]))
    /\ [][(Applying /\ state'.location # state.location
             /\ state'.location \in DOMAIN rules.LOCKS)
            => Get(turnFlags, rules.LOCKS[state'.location])]_vars

\* C4 witness: the batch set the lock's flag and then moved to the locked
\* location; the flag is applied, the move was rejected
LockedMoveDropped ==
    /\ JustApplied /\ idx > Len(legal)
    /\ response.state_change = <<[type |-> "set_flag", flag |-> "has_key", value |-> TRUE],
                                 [type |-> "move_to", location |-> "vault"]>>
    /\ ~Get(turnFlags, "has_key")
    /\ Get(state.flags, "has_key")
    /\ legal = <<[type |-> "set_flag", flag |-> "has_key", value |-> TRUE]>>
    /\ state.location # "vault"

MaxTurnsLoses ==
    state.turns >= rules.END_CONDITIONS.MAX_TURNS
        => /\ check_end_conditions(state, rules) = "LOSE"
           /\ pc = "done" => end_state = "LOSE"

\* C6 witness: the loop ended with LOSE at the turn limit although the win
\* flag is true and the lose flag is not
LostAtLimitWhileWinning ==
    /\ pc = "done" /\ end_state = "LOSE"
    /\ state.turns >= rules.END_CONDITIONS.MAX_TURNS
    /\ Get(state.flags, "won") /\ ~Get(state.flags, "hp_zero")

\* C7: hp is >= 0 after each atom that apply_state_change applies, in every
\* intermediate state of a batch.
HpNeverNegative == state.hp >= 0

\* C7 witness: the first atom of the first turn took 5 from the START hp of
\* 3 and hp is 0
HpClampedAtZero ==
    /\ JustApplied /\ idx = 2 /\ state.turns = 0 /\ shared
    /\ Applied = [type |-> "hp_delta", delta |-> -5]
    /\ state.hp = 0

\* C8: hp never exceeds the hp of the START snapshot.
HpAtMostStartHp == state.hp <= rules.START.hp

\* C8 (amended): hp has no upper bound; it rises only when a positive
\* hp_delta is applied, by exactly delta (also above the START hp), or when
\* a save file is restored.
HpRisesOnlyByDelta ==
    [][state'.hp > state.hp
          => \/ /\ Applying /\ legal[idx].type = "hp_delta" /\ legal[idx].delta > 0
                /\ state'.hp = state.hp + legal[idx].delta
             \/ Restoring]_vars

\* C8 witness: a positive hp_delta has just raised hp above the START hp
HpAboveStartHp ==
    /\ JustApplied /\ Applied.type = "hp_delta" /\ Applied.delta > 0
    /\ state.hp > rules.START.hp

\* C9: the inventory never holds an item twice, and an add_item for an item
\* that is present leaves the inventory as it is.
NoDuplicateItems ==
    /\ []NoDup(state.inventory)
    /\ [][(Applying /\ legal[idx].type = "add_item" /\ In(state.inventory, legal[idx].item))
            => state'.inventory = state.inventory]_vars

\* C9 witness: a batch added the same item twice and the inventory holds it once
AddedTwiceHeldOnce ==
    /\ JustApplied /\ idx = 3
    /\ legal = <<[type |-> "add_item", item |-> "A"], [type |-> "add_item", item |-> "A"]>>
    /\ state.inventory = <<"A">>

\* C10: no step of a session, load included, makes state.turns smaller.
TurnsNeverDecrease == [][state'.turns >= state.turns]_vars

\* C10 (amended): state.turns is >= 0, and every step that does not restore
\* a save file leaves it or adds exactly 1 to it; only a load makes it smaller.
TurnsDecreaseOnlyOnLoad ==
    /\ [](state.turns >= 0)
    /\ [][~Restoring => state'.turns \in {state.turns, state.turns + 1}]_vars

\* C10 witness: the state was restored from a save made before the turns
\* the transcript records
RestoredEarlierTurn ==
    /\ ~shared /\ pc = "check"
    /\ state.turns < Len(transcript) \div 4
    /\ state = JsonLoad(file.text).state

\* s is a prefix of t
IsPrefix(s, t) == Len(s) <= Len(t) /\ SubSeq(t, 1, Len(s)) = s

\* C11: the history before any step, load included, is a prefix of the
\* history after the step; no record is ever removed, replaced or reordered.
HistoryAppendOnly == [][IsPrefix(history, history')]_vars

\* C11 (amended): every step that does not restore a save file leaves the
\* history or appends exactly one record to it, so build_context and
\* save_game only read their last-3 and last-10 views; a load replaces the
\* history by the records of the save file.
HistoryGrowsExceptOnLoad ==
    [][~Restoring => \/ history' = history
                     \/ /\ Len(history') = Len(history) + 1
                        /\ IsPrefix(history, history')]_vars

\* C11 witness: a save has written 10 of the 11 records and the history
\* still holds all 11
SavedViewOfLongerHistory ==
    /\ pc = "check" /\ file.exists
    /\ Len(history) = 11 /\ saved.history = history
    /\ Len(JsonLoad(file.text).history) = 10

KnownTypes == {"add_item", "remove_item", "move_to", "set_flag", "hp_delta"}

\* the atoms of known type of a batch, in the batch's order
KnownOf(batch) ==
    LET Known(change) == change.type \in KnownTypes
    IN  SelectSeq(batch, Known)

\* C13: an atom of unknown type is never in the legal list and never
\* applied, and it does not stop the validation: the legal atoms after it
\* are returned in their order and applied (here no rule rejects an atom,
\* so the legal list is the batch without its atoms of unknown type).
UnknownAtomSkipped ==
    pc = "apply"
        => /\ \A i \in 1..Len(legal) : legal[i].type \in KnownTypes
           /\ legal = KnownOf(GetOr(response, "state_change", <<>>))
           /\ idx > Len(legal)
                => \A i \in 1..Len(legal) :
                      /\ legal[i].type = "set_flag" => Get(state.flags, legal[i].flag)
                      /\ legal[i].type = "add_item" => In(state.inventory, legal[i].item)

\* C13 witness: the batch was an atom of unknown type followed by a
\* set_flag; the set_flag alone is legal and has been applied
AppliedAfterUnknown ==
    /\ pc = "apply" /\ idx > Len(legal)
    /\ GetOr(response, "state_change", <<>>)
          = <<[type |-> "teleport"], [type |-> "set_flag", flag |-> "won"]>>
    /\ legal = <<[type |-> "set_flag", flag |-> "won"]>>
    /\ Get(state.flags, "won") /\ state.turns = 0

\* the first token of the text equals, ignoring case, the first token of a pattern
TokenMatches(text, commands) ==
    \E i \in 1..Len(commands) :
        Lower(FirstToken(Chars(text))) = Lower(FirstToken(Chars(commands[i])))

\* C14: a free text is accepted as a command if and only if its first
\* token equals, ignoring case, the first token of a pattern of COMMANDS.
CommandRecognizedByToken ==
    [][\A text \in FreeTexts :
          /\ Accepted(text) => TokenMatches(text, rules.COMMANDS)
          /\ Rejected(text) => ~TokenMatches(text, rules.COMMANDS)]_vars

\* the add_item atoms of a batch, in order
AddsOf(batch) ==
    LET IsAdd(change) == change.type = "add_item"
    IN  SelectSeq(batch, IsAdd)

ThreeAdds == <<[type |-> "add_item", item |-> "A"],
               [type |-> "add_item", item |-> "B"],
               [type |-> "add_item", item |-> "C"]>>

\* C15: when a batch has been validated and no atom of it applied yet, every
\* add_item atom of the batch is legal if the inventory holds fewer than
\* INVENTORY_LIMIT items and none is legal otherwise; against an empty
\* inventory the validator returns all of [add A, add B, add C].
BatchCapacityPolicy ==
    /\ INVENTORY_LIMIT = 2
       => enforce_state_change([state EXCEPT !.inventory = <<>>], RulesFile(<<>>), ThreeAdds)
              = ThreeAdds
    /\ (pc = "apply" /\ idx = 1)
       => LET batch == GetOr(response, "state_change", <<>>)
          IN  IF Len(state.inventory) < rules.INVENTORY_LIMIT
              THEN AddsOf(legal) = AddsOf(batch)
              ELSE AddsOf(legal) = <<>>

\* one free slot, two additions proposed, both accepted
TwoAddsOneSlot ==
    /\ pc = "apply"
    /\ idx = 1
    /\ state.inventory = <<"A">>
    /\ GetOr(response, "state_change", <<>>)
           = <<[type |-> "add_item", item |-> "B"], [type |-> "add_item", item |-> "C"]>>
    /\ legal = GetOr(response, "state_change", <<>>)

\* the flags of a list of the catalog's END_CONDITIONS, none when the list is absent
EndFlags(rl, key) ==
    IF key \in DOMAIN rl.END_CONDITIONS
    THEN {rl.END_CONDITIONS[key][i] : i \in 1..Len(rl.END_CONDITIONS[key])}
    ELSE {}

\* C16: below MAX_TURNS the end check gives LOSE when a flag of
\* LOSE_ANY_FLAGS is true, also when every flag of WIN_ALL_FLAGS is true;
\* otherwise WIN exactly when WIN_ALL_FLAGS is not empty and all its flags are
\* true, otherwise None; an empty or absent WIN_ALL_FLAGS never gives WIN; the
\* evaluation changes nothing of the state, the catalog or the history.
EndCheckBelowMaxTurns ==
    [][(CheckEnd /\ state.turns < rules.END_CONDITIONS.MAX_TURNS)
       => LET lose == \E f \in EndFlags(rules, "LOSE_ANY_FLAGS") : Get(state.flags, f)
              win == /\ EndFlags(rules, "WIN_ALL_FLAGS") # {}
                     /\ \A f \in EndFlags(rules, "WIN_ALL_FLAGS") : Get(state.flags, f)
          IN  /\ lose => end_state' = "LOSE"
              /\ (~lose /\ win) => end_state' = "WIN"
              /\ (~lose /\ ~win) => end_state' = "None"
              /\ EndFlags(rules, "WIN_ALL_FLAGS") = {} => end_state' # "WIN"
              /\ UNCHANGED <<state, rules, history, transcript, file>>]_vars

\* lost below the turn limit with the win flag and the lose flag both true
LostWhileWinningBelowLimit ==
    /\ pc = "done"
    /\ end_state = "LOSE"
    /\ state.turns < rules.END_CONDITIONS.MAX_TURNS
    /\ Get(state.flags, "won")
    /\ Get(state.flags, "hp_zero")
    /\ EndFlags(rules, "WIN_ALL_FLAGS") = {"won"}

\* the deltas of the hp_delta atoms of a batch, in order
DeltasOf(batch) ==
    LET IsDelta(change) == change.type = "hp_delta"
        deltas == SelectSeq(batch, IsDelta)
    IN  [i \in 1..Len(deltas) |-> deltas[i].delta]

\* hp := max(0, hp + delta) from left to right
RECURSIVE FoldHp(_, _)
FoldHp(hp, deltas) ==
    IF deltas = <<>> THEN hp
    ELSE FoldHp(IF hp + Head(deltas) > 0 THEN hp + Head(deltas) ELSE 0, Tail(deltas))

RECURSIVE Sum(_)
Sum(deltas) == IF deltas = <<>> THEN 0 ELSE Head(deltas) + Sum(Tail(deltas))

\* C17: after the first n atoms of a batch have been applied, hp is the
\* left-to-right fold hp := max(0, hp + delta) of the deltas of those n atoms
\* from the hp at the start of the batch, and hp_zero is true when the fold
\* passed through 0.
HpFoldInOrder ==
    pc = "apply"
    => LET done == DeltasOf(SubSeq(legal, 1, idx - 1))
       IN  /\ state.hp = FoldHp(turnHp, done)
           /\ (\E n \in 1..Len(done) : FoldHp(turnHp, SubSeq(done, 1, n)) = 0)
              => Get(state.flags, "hp_zero")

\* hp 3 with deltas -5 then +2 ends at 2 with hp_zero true; the sum gives 0
ClampedThenRaised ==
    /\ pc = "apply"
    /\ idx > Len(legal)
    /\ turnHp = 3
    /\ DeltasOf(legal) = <<-5, 2>>
    /\ state.hp = 2
    /\ Max(0, turnHp + Sum(DeltasOf(legal))) = 0
    /\ Get(state.flags, "hp_zero")

\* the end conditions evaluate to None in the current state
Running == check_end_conditions(state, rules) = "None"

TurnsMatchHistory ==
    /\ [](pc = "input"
            => /\ history # <<>> => history[Len(history)].turn = state.turns
               /\ \A i \in 1..(Len(history) - 1) : history[i + 1].turn = history[i].turn + 1)
    /\ [][TurnEnd
            => /\ state'.turns = state.turns + 1
               /\ Len(history') = Len(history) + 1
               /\ IsPrefix(history, history')
               /\ history'[Len(history')].turn = state'.turns
               /\ history'[Len(history')].state_change = legal
               /\ idx = Len(legal) + 1]_vars

\* at the prompt after save, a further turn and load: one record, turn 1
PromptAfterLoad ==
    /\ pc = "input"
    /\ ~shared
    /\ state.turns = 1
    /\ Len(history) = 1
    /\ history[1].turn = 1
    /\ history[1].state_change # <<>>
    /\ Len(transcript) = 8

\* the loop has ended on an evaluation to WIN or LOSE
Ended == pc = "done" /\ end_state \in {"WIN", "LOSE"}

\* C20: state.turns never exceeds MAX_TURNS, and a session of recognized
\* commands with successful oracle calls ends on WIN or LOSE.
BoundedGameLength ==
    /\ [](state.turns <= rules.END_CONDITIONS.MAX_TURNS)
    /\ <>Ended

\* lost by the turn limit after exactly MAX_TURNS completed turns
EndedAtTurnLimit ==
    /\ Ended
    /\ end_state = "LOSE"
    /\ rules.END_CONDITIONS.MAX_TURNS = MAX_TURNS
    /\ state.turns = MAX_TURNS
    /\ Len(history) = MAX_TURNS
    /\ ~Get(state.flags, "won")

=============================================================================
